---- MODULE Spec2Model ----
(***************************************************************************)
(* Schema-driven validation and migration engine of the AI Dashboard API.  *)
(*                                                                         *)
(* JSON values are tagged records.  An object (request body, stored        *)
(* document) is a total function over a key universe in which an absent    *)
(* key reads as Undef, exactly as data[key] reads as undefined in the      *)
(* source; hasOwnProperty(key) is therefore data[key] # Undef (a JSON body *)
(* and a Firestore document never hold an explicit undefined).             *)
(* A nested object is a sequence of <<key, value>> pairs.                  *)
(***************************************************************************)
EXTENDS Integers, Sequences, FiniteSets, TLC

VARIABLES
    store,      \* Firestore: collection name -> document id -> document | NoDoc
    clock,      \* value new Date() yields next
    ids,        \* number of uuidv4() values handed out so far
    job,        \* the migration CLI run in progress (migrateCollection / migrateDocument)
    step,       \* the request served last and its response
    vIn,        \* validator / sanitizer call: its arguments
    vOut,       \* validator / sanitizer call: what it returned
    dIn,        \* applyDefaults call: its arguments
    dOut        \* applyDefaults call: what it returned

vars == <<store, clock, ids, job, step, vIn, vOut, dIn, dOut>>

----------------------------------------------------------------------------
(* JSON values *)

Undef == [k |-> "undef"]
Null == [k |-> "null"]
\* a string: its content, its .length, and whether it matches ^[a-zA-Z0-9_-]+$
S(s, len, word) == [k |-> "str", s |-> s, len |-> len, word |-> word]
Num(n) == [k |-> "num", n |-> n]
Bool(b) == [k |-> "bool", b |-> b]
Arr(items) == [k |-> "arr", items |-> items]
Obj(pairs) == [k |-> "obj", f |-> pairs]

EmptyStr == S("", 0, FALSE)
Word(s, len) == S(s, len, TRUE)

\* typeof value
TypeOf(v) ==
    CASE v.k = "undef" -> "undefined"
      [] v.k = "str" -> "string"
      [] v.k = "num" -> "number"
      [] v.k = "bool" -> "boolean"
      [] OTHER -> "object"

\* Array.isArray(value)
IsArray(v) == v.k = "arr"

\* value === undefined || value === null
Missing(v) == v = Undef \/ v = Null

\* JavaScript truthiness
Truthy(v) ==
    CASE v.k = "undef" -> FALSE
      [] v.k = "null" -> FALSE
      [] v.k = "str" -> v.len > 0
      [] v.k = "num" -> v.n # 0
      [] v.k = "bool" -> v.b
      [] OTHER -> TRUE

\* obj[key] on a nested object literal
RECURSIVE PairGet(_, _)
PairGet(pairs, key) ==
    IF pairs = <<>> THEN Undef
    ELSE IF Head(pairs)[1] = key THEN Head(pairs)[2]
    ELSE PairGet(Tail(pairs), key)

\* obj[key] for any item value; reading a property of null throws a TypeError
Prop(v, key) == IF v.k = "obj" THEN PairGet(v.f, key) ELSE Undef

----------------------------------------------------------------------------
(* Field descriptors *)

None == -1  \* a numeric constraint that is not declared (undefined)

Fld(name, type, required) ==
    [name |-> name, type |-> type, required |-> required,
     generated |-> FALSE, editable |-> TRUE, default |-> Undef,
     hasValidation |-> FALSE,
     minLength |-> None, maxLength |-> None, pattern |-> "",
     min |-> None, max |-> None, minItems |-> None, maxItems |-> None,
     hasOptions |-> FALSE, options |-> <<>>,
     itemType |-> "", schema |-> <<>>]

\* { generated: true, editable: false }
Gen(name, type, required) ==
    [Fld(name, type, required) EXCEPT !.generated = TRUE, !.editable = FALSE]

\* validation: { minLength, maxLength }
Text(name, type, required, minLength, maxLength) ==
    [Fld(name, type, required) EXCEPT !.hasValidation = TRUE,
        !.minLength = minLength, !.maxLength = maxLength]

\* options: [...]
Select(name, required, options) ==
    [Fld(name, "select", required) EXCEPT !.hasOptions = TRUE, !.options = options]

\* one entry of a nested field map
Sub(key, type, required, min, max) ==
    [key |-> key, type |-> type, required |-> required, min |-> min, max |-> max,
     options |-> <<>>, maxLength |-> None]

Slider(key) == Sub(key, "number", FALSE, 0, 100)

\* validation: { min, max } of a number field
Number(name, required, min, max) ==
    [Fld(name, "number", required) EXCEPT !.hasValidation = TRUE,
        !.min = min, !.max = max]

\* type: 'object' with a nested field map
Object(name, required, schema) ==
    [Fld(name, "object", required) EXCEPT !.schema = schema]

----------------------------------------------------------------------------
(* The schema definitions *)

PersonalitySliders ==
    << Slider("introvertExtrovert"), Slider("criticalCompassionate"),
       Slider("spontaneousOrganized"), Slider("sensitiveCalm"),
       Slider("conventionalImaginative") >>

SpeakingStyleSliders ==
    << Slider("bluntEmpathic"), Slider("formalCasual"),
       Slider("elaborateConcise"), Slider("seriousPlayful"),
       Slider("passiveAssertive") >>

Draft == Word("draft", 5)

characterSchema ==
    [type |-> "character", version |-> "1.0", collection |-> "characters",
     sections |-> <<
        \* background
        << Fld("image", "file", FALSE),
           Text("name", "string", TRUE, 1, 200),
           Number("age", FALSE, 0, 200),
           Text("occupation", "string", FALSE, None, 200),
           Text("gender", "string", FALSE, None, 100),
           Text("background", "text", FALSE, None, 5000) >>,
        \* behaviour
        << Text("ambitions", "text", FALSE, None, 2000),
           Text("generalBehaviour", "text", FALSE, None, 2000) >>,
        \* personality
        << Select("personalityPreset", FALSE, <<>>),
           Object("personalitySliders", FALSE, PersonalitySliders),
           Text("personalityTraits", "text", FALSE, None, 2000) >>,
        \* languageAndSpeech
        << Select("voiceId", TRUE, <<>>),
           Select("speakingStylePreset", FALSE, <<>>),
           Object("speakingStyleSliders", FALSE, SpeakingStyleSliders),
           Text("speakingStyleNotes", "text", FALSE, None, 2000) >>,
        \* characterBuilder
        << >>,
        \* knowledgeBank
        << Text("knowledge", "text", FALSE, None, 10000),
           [Fld("knowledgeFiles", "array", FALSE) EXCEPT !.itemType = "file"] >>
     >>,
     fields |-> << >>,
     listFields |-> <<
        Gen("id", "string", TRUE),
        Fld("name", "string", TRUE),
        Text("description", "text", FALSE, None, 500),
        Fld("voiceId", "string", TRUE),
        [Select("status", TRUE, <<"draft", "active", "archived">>)
            EXCEPT !.default = Draft],
        Gen("companyId", "string", TRUE),
        Gen("createdBy", "string", TRUE),
        Gen("createdAt", "timestamp", TRUE),
        Gen("updatedAt", "timestamp", TRUE),
        Gen("updatedBy", "string", FALSE) >>]

\* the nested field map of dialogue roles
RoleSchema ==
    << Sub("roleId", "string", TRUE, None, None),
       [Sub("rolePreset", "select", FALSE, None, None) EXCEPT !.options =
            <<"protagonist", "antagonist", "guide", "mentor", "observer", "participant">>],
       [Sub("roleDescription", "text", FALSE, None, None) EXCEPT !.maxLength = 1000] >>

dialogueSchema ==
    [type |-> "dialogue", version |-> "1.0", collection |-> "dialogues",
     sections |-> <<
        \* purpose
        << Text("name", "string", TRUE, 1, 200),
           Text("description", "text", FALSE, None, 1000),
           Select("purposePreset", FALSE,
                  <<"correct_feedback", "incorrect_feedback", "descriptive_feedback",
                    "evaluative_feedback", "suggestive_feedback", "incomplete_feedback",
                    "right_wrong_feedback", "percentage_feedback">>),
           Text("dialogueContext", "text", FALSE, None, 3000),
           Text("dialoguePurpose", "text", FALSE, None, 3000) >>,
        \* characterRoles
        << [Fld("roles", "array", FALSE) EXCEPT !.itemType = "object",
                                                 !.schema = RoleSchema] >>,
        \* feedback
        << Text("feedbackDescription", "text", FALSE, None, 2000),
           Select("feedbackStyle", FALSE,
                  <<"immediate", "delayed", "progressive", "summary">>) >>
     >>,
     fields |-> << >>,
     listFields |-> <<
        Gen("id", "string", TRUE),
        Fld("name", "string", TRUE),
        Fld("description", "text", FALSE),
        Gen("companyId", "string", TRUE),
        Gen("createdBy", "string", TRUE),
        Gen("createdAt", "timestamp", TRUE),
        Gen("updatedAt", "timestamp", TRUE),
        Gen("updatedBy", "string", FALSE) >>]

environmentSchema ==
    [type |-> "environment", version |-> "1.0", collection |-> "environments",
     sections |-> <<
        \* generalInfo
        << Fld("image", "file", FALSE),
           Text("name", "string", TRUE, 1, 200),
           [Text("referenceId", "string", TRUE, 1, 100)
                EXCEPT !.pattern = "^[a-zA-Z0-9_-]+$"],
           Text("season", "string", FALSE, None, 100),
           Select("environmentType", FALSE,
                  <<"indoor", "outdoor", "virtual", "mixed", "urban", "rural",
                    "natural", "industrial", "residential", "commercial">>),
           Text("description", "text", FALSE, None, 3000) >>
     >>,
     fields |-> << >>,
     listFields |-> <<
        Gen("id", "string", TRUE),
        Fld("name", "string", TRUE),
        Fld("description", "text", FALSE),
        Gen("companyId", "string", TRUE),
        Gen("createdBy", "string", TRUE),
        Gen("createdAt", "timestamp", TRUE),
        Gen("updatedAt", "timestamp", TRUE),
        Gen("updatedBy", "string", FALSE) >>]

\* The registry.  index.js also registers 'scenario'; scenario.schema.js is
\* not part of the source tree at hand, so that entry is left out here.
schemas ==
    [character |-> characterSchema,
     dialogue |-> dialogueSchema,
     environment |-> environmentSchema]

NoSchema == [type |-> "", version |-> "", collection |-> "",
             sections |-> << >>, fields |-> << >>, listFields |-> << >>]

\* schemas.hasOwnProperty(type)
isValidType(type) == type \in DOMAIN schemas

\* Object.keys(schemas)
getSchemaTypes == DOMAIN schemas

\* schemas[type] || null   (NoSchema stands for null)
getSchema(type) == IF isValidType(type) THEN schemas[type] ELSE NoSchema

\* collectionName.slice(0, -1)
TypeOfCollection(collectionName) ==
    CASE collectionName = "characters" -> "character"
      [] collectionName = "dialogues" -> "dialogue"
      [] collectionName = "environments" -> "environment"
      [] collectionName = "activities" -> "activitie"
      [] OTHER -> ""

----------------------------------------------------------------------------
(* Field flattening *)

RECURSIVE Concat(_)
Concat(seqs) == IF seqs = <<>> THEN <<>> ELSE Head(seqs) \o Concat(Tail(seqs))

\* sections' fields, then fields, then listFields
CollectFields(schema) ==
    Concat(schema.sections) \o schema.fields \o schema.listFields

Names(fields) == {fields[i].name : i \in DOMAIN fields}

\* fieldMap: the first descriptor of each name, in order of first occurrence
RECURSIVE Dedupe(_, _)
Dedupe(fields, seen) ==
    IF fields = <<>> THEN <<>>
    ELSE IF Head(fields).name \in seen THEN Dedupe(Tail(fields), seen)
    ELSE <<Head(fields)>> \o Dedupe(Tail(fields), seen \cup {Head(fields).name})

FlattenFields(schema) == Dedupe(CollectFields(schema), {})

\* allFields of validateData and sanitizeData, per registered type
allFields == [type \in getSchemaTypes |-> FlattenFields(schemas[type])]

----------------------------------------------------------------------------
(* Validator *)

\* data[key]
Get(data, key) == IF key \in DOMAIN data THEN data[key] ELSE Undef

\* data.hasOwnProperty(key)
HasOwn(data, key) == Get(data, key) # Undef

\* an error message: the field path field[index].sub and the message's kind
Err(field, index, sub, msg) == [field |-> field, index |-> index, sub |-> sub, msg |-> msg]

NoIndex == -1

\* new RegExp(pattern).test(value); the only pattern declared is ^[a-zA-Z0-9_-]+$
PatternTest(pattern, value) == value.word

\* validateObjectAgainstSchema, one key of the nested field map
SubErrors(obj, fieldDef, field, index) ==
    LET value == Prop(obj, fieldDef.key)
        E(msg) == <<Err(field, index, fieldDef.key, msg)>>
    IN  IF fieldDef.required /\ (Missing(value) \/ value = EmptyStr) THEN E("required")
        ELSE IF Missing(value) THEN <<>>
        ELSE CASE fieldDef.type = "string" ->
                    IF TypeOf(value) # "string" THEN E("must be a string") ELSE <<>>
               [] fieldDef.type = "number" ->
                    IF TypeOf(value) # "number" THEN E("must be a number")
                    ELSE (IF fieldDef.min # None /\ value.n < fieldDef.min
                          THEN E("must be at least min") ELSE <<>>)
                      \o (IF fieldDef.max # None /\ value.n > fieldDef.max
                          THEN E("must be at most max") ELSE <<>>)
               [] fieldDef.type = "boolean" ->
                    IF TypeOf(value) # "boolean" THEN E("must be a boolean") ELSE <<>>
               [] fieldDef.type = "reference" ->
                    IF TypeOf(value) # "string" THEN E("must be a string (reference ID)")
                    ELSE <<>>
               [] OTHER -> <<>>

RECURSIVE SubErrorsAll(_, _, _, _)
SubErrorsAll(obj, schema, field, index) ==
    IF schema = <<>> THEN <<>>
    ELSE SubErrors(obj, Head(schema), field, index)
            \o SubErrorsAll(obj, Tail(schema), field, index)

\* validateObjectAgainstSchema(obj, schema, fieldPrefix): the errors, or a
\* TypeError when obj is null and the field map has a key to read
validateObjectAgainstSchema(obj, schema, field, index) ==
    IF obj = Null /\ schema # <<>>
    THEN [errs |-> <<>>, threw |-> TRUE]
    ELSE [errs |-> SubErrorsAll(obj, schema, field, index), threw |-> FALSE]

RECURSIVE ItemResults(_, _, _, _)
ItemResults(items, schema, field, index) ==
    IF items = <<>> THEN [errs |-> <<>>, threw |-> FALSE]
    ELSE LET r == validateObjectAgainstSchema(Head(items), schema, field, index)
             rest == ItemResults(Tail(items), schema, field, index + 1)
         IN  [errs |-> r.errs \o rest.errs, threw |-> r.threw \/ rest.threw]

\* the type-specific validation of a present value
TypeCheck(field, value) ==
    LET E(msg) == <<Err(field.name, NoIndex, "", msg)>>
        ok(errs) == [errs |-> errs, threw |-> FALSE]
    IN  CASE field.type \in {"string", "text"} ->
                IF TypeOf(value) # "string" THEN ok(E("must be a string"))
                ELSE IF field.hasValidation
                THEN ok((IF field.minLength > 0 /\ value.len < field.minLength
                         THEN E("must be at least minLength characters") ELSE <<>>)
                     \o (IF field.maxLength > 0 /\ value.len > field.maxLength
                         THEN E("must be at most maxLength characters") ELSE <<>>)
                     \o (IF field.pattern # "" /\ ~PatternTest(field.pattern, value)
                         THEN E("does not match required pattern") ELSE <<>>))
                ELSE ok(<<>>)
          [] field.type = "number" ->
                IF TypeOf(value) # "number" THEN ok(E("must be a number"))
                ELSE IF field.hasValidation
                THEN ok((IF field.min # None /\ value.n < field.min
                         THEN E("must be at least min") ELSE <<>>)
                     \o (IF field.max # None /\ value.n > field.max
                         THEN E("must be at most max") ELSE <<>>))
                ELSE ok(<<>>)
          [] field.type = "boolean" ->
                IF TypeOf(value) # "boolean" THEN ok(E("must be a boolean")) ELSE ok(<<>>)
          [] field.type = "array" ->
                IF ~IsArray(value) THEN ok(E("must be an array"))
                ELSE LET bounds ==
                            IF field.hasValidation
                            THEN (IF field.minItems > 0 /\ Len(value.items) < field.minItems
                                  THEN E("must have at least minItems items") ELSE <<>>)
                              \o (IF field.maxItems > 0 /\ Len(value.items) > field.maxItems
                                  THEN E("must have at most maxItems items") ELSE <<>>)
                            ELSE <<>>
                         items ==
                            IF field.itemType = "object" /\ field.schema # <<>>
                            THEN ItemResults(value.items, field.schema, field.name, 0)
                            ELSE ok(<<>>)
                     IN  [errs |-> bounds \o items.errs, threw |-> items.threw]
          [] field.type = "object" ->
                IF TypeOf(value) # "object" \/ IsArray(value) THEN ok(E("must be an object"))
                ELSE IF field.schema # <<>>
                THEN validateObjectAgainstSchema(value, field.schema, field.name, NoIndex)
                ELSE ok(<<>>)
          [] field.type = "reference" ->
                IF TypeOf(value) # "string" THEN ok(E("must be a string (reference ID)"))
                ELSE ok(<<>>)
          [] field.type = "select" ->
                IF field.hasOptions /\ Len(field.options) > 0
                     /\ ~(value.k = "str" /\ \E i \in DOMAIN field.options :
                                                field.options[i] = value.s)
                THEN ok(E("must be one of")) ELSE ok(<<>>)
          [] OTHER -> ok(<<>>)   \* file, timestamp

\* the required check on update as if it were the one on create
RequiredErrorsStrict(field, data, isUpdate) ==
    <<Err(field.name, NoIndex, "", "is required")>>

\* the errors pushed for a required field whose value is undefined, null
\* or '': on update only when the payload has the key
RequiredErrors(field, data, isUpdate) ==
    IF isUpdate
    THEN IF HasOwn(data, field.name)
         THEN <<Err(field.name, NoIndex, "", "is required and cannot be set to empty")>>
         ELSE <<>>
    ELSE <<Err(field.name, NoIndex, "", "is required")>>

\* a validator that skips no field
SkippedNever(field) == FALSE

\* field.generated && field.editable === false
Skipped(field) == field.generated /\ ~field.editable

\* the body of allFields.forEach in validateData
ValidateField(field, data, isUpdate) ==
    LET value == Get(data, field.name)
        ok(errs) == [errs |-> errs, threw |-> FALSE]
    IN  IF Skipped(field) THEN ok(<<>>)
        ELSE IF field.required /\ (Missing(value) \/ value = EmptyStr)
        THEN ok(RequiredErrors(field, data, isUpdate))
        ELSE IF Missing(value) THEN ok(<<>>)
        ELSE TypeCheck(field, value)

RECURSIVE ValidateFields(_, _, _)
ValidateFields(fields, data, isUpdate) ==
    IF fields = <<>> THEN [errs |-> <<>>, threw |-> FALSE]
    ELSE LET r == ValidateField(Head(fields), data, isUpdate)
             rest == ValidateFields(Tail(fields), data, isUpdate)
         IN  [errs |-> r.errs \o rest.errs, threw |-> r.threw \/ rest.threw]

NoDoc == [k |-> "nodoc"]   \* no document / null

\* a warning that does not look at the mode
VersionWarningsAnyMode(schema, isUpdate, existingData) ==
    IF existingData # NoDoc
        /\ Truthy(Get(existingData, "schemaVersion"))
        /\ ~(Get(existingData, "schemaVersion").k = "str"
             /\ Get(existingData, "schemaVersion").s = schema.version)
    THEN << [from |-> Get(existingData, "schemaVersion"), to |-> schema.version] >>
    ELSE << >>

\* the stale-version warning of validateData
VersionWarnings(schema, isUpdate, existingData) ==
    IF isUpdate /\ existingData # NoDoc
        /\ Truthy(Get(existingData, "schemaVersion"))
        /\ ~(Get(existingData, "schemaVersion").k = "str"
             /\ Get(existingData, "schemaVersion").s = schema.version)
    THEN << [from |-> Get(existingData, "schemaVersion"), to |-> schema.version] >>
    ELSE << >>

\* validateData(type, data, isUpdate, existingData); threw: a TypeError
\* escaped instead of a result
validateData(type, data, isUpdate, existingData) ==
    LET schema == getSchema(type)
    IN  IF schema = NoSchema
        THEN [valid |-> FALSE,
              errors |-> <<Err(type, NoIndex, "", "Unknown schema type")>>,
              warnings |-> << >>, threw |-> FALSE]
        ELSE LET r == ValidateFields(allFields[type], data, isUpdate)
             IN  IF r.threw
                 THEN [valid |-> FALSE, errors |-> << >>, warnings |-> << >>,
                       threw |-> TRUE]
                 ELSE [valid |-> Len(r.errs) = 0, errors |-> r.errs,
                       warnings |-> VersionWarnings(schema, isUpdate, existingData),
                       threw |-> FALSE]

----------------------------------------------------------------------------
(* Sanitizer *)

\* a sanitizer that deletes the name
StrippedName(schema) == {"name"}

\* a sanitizer that deletes nothing
StrippedNone(schema) == {}

\* the names sanitizeData deletes
Stripped(schema) ==
    LET fields == allFields[schema.type]
    IN  {fields[i].name : i \in {j \in DOMAIN fields :
            ~fields[j].editable \/ fields[j].generated}}

\* a sanitizer that hands the payload on as it came
sanitizeDataAsIs(type, data) == [sanitized |-> data, data |-> data]

\* sanitizeData(type, data): the object it returns, and its argument after
\* the call (the deletes act on the copy { ...data })
sanitizeData(type, data) ==
    LET schema == getSchema(type)
    IN  IF schema = NoSchema THEN [sanitized |-> data, data |-> data]
        ELSE [sanitized |-> [key \in DOMAIN data |->
                                IF key \in Stripped(schema) THEN Undef ELSE data[key]],
              data |-> data]

----------------------------------------------------------------------------
(* Migration: applyDefaults *)

\* the empty value the switch on field.type assigns; Undef: no case matches
Placeholder(type) ==
    CASE type \in {"string", "text"} -> EmptyStr
      [] type = "number" -> Num(0)
      [] type = "boolean" -> Bool(FALSE)
      [] type = "array" -> Arr(<< >>)
      [] type = "object" -> Obj(<< >>)
      [] OTHER -> Undef

\* a default pass that also fills the empty string
DefaultAppliesOnEmpty(field, data) ==
    field.default # Undef
        /\ (Missing(Get(data, field.name)) \/ Get(data, field.name) = EmptyStr)

\* has the default pass a value to assign: field.default !== undefined and
\* the document's value is missing
DefaultApplies(field, data) ==
    field.default # Undef /\ Missing(Get(data, field.name))

\* the body of allFields.forEach in applyDefaults, on the copy `updated`
ApplyField(field, data, acc) ==
    LET afterDefault ==
            IF DefaultApplies(field, data)
            THEN [updated |-> [acc.updated EXCEPT ![field.name] = field.default],
                  modified |-> TRUE]
            ELSE acc
    IN  IF field.required /\ Missing(Get(data, field.name))
        THEN [updated |->
                IF Placeholder(field.type) # Undef
                THEN [afterDefault.updated EXCEPT ![field.name] = Placeholder(field.type)]
                ELSE afterDefault.updated,
              modified |-> TRUE]
        ELSE afterDefault

RECURSIVE ApplyFields(_, _, _)
ApplyFields(fields, data, acc) ==
    IF fields = <<>> THEN acc
    ELSE ApplyFields(Tail(fields), data, ApplyField(Head(fields), data, acc))

\* applyDefaults(data, schema) -> { updated, modified }
applyDefaults(data, schema) ==
    ApplyFields(CollectFields(schema), data, [updated |-> data, modified |-> FALSE])

----------------------------------------------------------------------------
(* The document store and the values the server assigns *)

MaxIds == 2     \* uuidv4() values the requests of a run may draw
MaxRuns == 1    \* times the migration CLI is started
MaxClock == 1   \* distinct later instants new Date() may show

\* new Date().toISOString() at instant n
Ts(n) == S("T" \o ToString(n), 24, FALSE)

\* the n-th value of uuidv4()
UuidName(n) == "uuid-" \o ToString(n)
Uuid(n) == S(UuidName(n), 36, TRUE)

\* a version string "major.minor"
Ver(v) == S(v, 3, FALSE)

\* an opaque 8-character identifier (company, user, legacy document id)
Tok(s) == S(s, 8, TRUE)

\* a collection name as a string value
CollVal(collectionName) ==
    S(collectionName,
      CASE collectionName = "characters" -> 10
        [] collectionName = "dialogues" -> 9
        [] collectionName = "environments" -> 12
        [] OTHER -> 10,
      TRUE)

\* a document id as a string value
IdVal(id) == IF id \in {"doc-000a", "doc-000b"} THEN Tok(id) ELSE S(id, 36, TRUE)

Companies == {"acme-001", "glob-002"}
Users == {"user-001"}
LegacyIds == {"doc-000a", "doc-000b"}
DocIds == LegacyIds \cup {UuidName(n) : n \in 1..MaxIds}

\* the order in which a query snapshot lists documents (by document id)
IdOrder == <<"doc-000a", "doc-000b">> \o [n \in 1..MaxIds |-> UuidName(n)]

EntityCollections == {"characters", "dialogues", "environments"}
Collections == EntityCollections \cup {"activities"}

ActivityKeys ==
    {"id", "type", "entityType", "entityId", "entityName", "userId", "companyId",
     "timestamp"}

\* the keys a request body or a stored document of a collection may hold:
\* the schema's field names, schemaVersion, and one key no schema declares
KeysOfSchema(schema) == Names(CollectFields(schema)) \cup {"schemaVersion", "extra"}

KeysOf(collectionName) ==
    IF collectionName = "activities" THEN ActivityKeys
    ELSE KeysOfSchema(getSchema(TypeOfCollection(collectionName)))

\* the object literal { ...rec } over a key universe
Mk(keys, rec) == [key \in keys |-> IF key \in DOMAIN rec THEN rec[key] ELSE Undef]

\* { ...a, ...b }
Spread(a, b) == [key \in DOMAIN a |-> IF Get(b, key) # Undef THEN b[key] ELSE a[key]]

\* doc.exists
Exists(st, collectionName, id) == st[collectionName][id] # NoDoc

\* docRef.set(data)
SetDoc(st, collectionName, id, data) == [st EXCEPT ![collectionName][id] = data]

\* docRef.update(data): the given fields replace the stored ones
UpdateDoc(st, collectionName, id, data) ==
    [st EXCEPT ![collectionName][id] = Spread(@, data)]

\* docRef.delete()
DeleteDoc(st, collectionName, id) == [st EXCEPT ![collectionName][id] = NoDoc]

\* trackActivity: one more document in 'activities'
trackActivity(st, activityId, activity) ==
    SetDoc(st, "activities", UuidName(activityId),
           Mk(ActivityKeys, [id |-> Uuid(activityId)] @@ activity))

\* data.name || 'Unnamed'
NameOr(value, other) == IF Truthy(value) THEN value ELSE other
Unnamed == S("Unnamed", 7, TRUE)

----------------------------------------------------------------------------
(* Firestore service and the entity routes *)

\* a document literal in which the payload's own keys are spread last
WithStampsFirst(data, stamps) ==
    [key \in DOMAIN data |-> IF data[key] # Undef THEN data[key] ELSE Get(stamps, key)]

\* { ...data, id, companyId, createdBy, createdAt, updatedAt, schemaVersion }
WithStamps(data, stamps) == Spread(data, stamps)

\* firestoreService.create: the store afterwards and the document written
create(st, n, now, collectionName, data, userId, companyId) ==
    LET schema == getSchema(TypeOfCollection(collectionName))
        schemaVersion == IF schema # NoSchema /\ schema.version # ""
                         THEN Ver(schema.version) ELSE Ver("1.0")
        documentData ==
            WithStamps(data, [id |-> Uuid(n + 1), companyId |-> Tok(companyId),
                              createdBy |-> Tok(userId), createdAt |-> Ts(now),
                              updatedAt |-> Ts(now), schemaVersion |-> schemaVersion])
        written == SetDoc(st, collectionName, UuidName(n + 1), documentData)
    IN  [st |-> trackActivity(written, n + 2,
                    [type |-> S("create", 6, TRUE), entityType |-> CollVal(collectionName),
                     entityId |-> Uuid(n + 1),
                     entityName |-> NameOr(Get(data, "name"), Unnamed),
                     userId |-> Tok(userId), companyId |-> Tok(companyId),
                     timestamp |-> Ts(now)]),
         ids |-> n + 2, success |-> TRUE, id |-> UuidName(n + 1), data |-> documentData]

\* firestoreService.update
update(st, n, now, collectionName, id, data, userId, companyId) ==
    IF ~Exists(st, collectionName, id)
    THEN [st |-> st, ids |-> n, success |-> FALSE, id |-> id, data |-> NoDoc]
    ELSE LET existingData == st[collectionName][id]
             updateData == Spread(data, [updatedAt |-> Ts(now), updatedBy |-> Tok(userId)])
         IN  IF existingData["companyId"] # Tok(companyId)
             THEN [st |-> st, ids |-> n, success |-> FALSE, id |-> id, data |-> NoDoc]
             ELSE [st |-> trackActivity(UpdateDoc(st, collectionName, id, updateData), n + 1,
                            [type |-> S("update", 6, TRUE),
                             entityType |-> CollVal(collectionName), entityId |-> IdVal(id),
                             entityName |-> NameOr(existingData["name"],
                                                NameOr(Get(data, "name"), Unnamed)),
                             userId |-> Tok(userId), companyId |-> Tok(companyId),
                             timestamp |-> Ts(now)]),
                   ids |-> n + 1, success |-> TRUE, id |-> id,
                   data |-> Spread(Spread(Mk(DOMAIN existingData, [id |-> IdVal(id)]),
                                          existingData), updateData)]

\* firestoreService.deleteDoc
deleteDoc(st, n, now, collectionName, id, userId, companyId) ==
    IF ~Exists(st, collectionName, id)
    THEN [st |-> st, ids |-> n, success |-> FALSE, id |-> id, data |-> NoDoc]
    ELSE LET data == st[collectionName][id]
         IN  IF data["companyId"] # Tok(companyId)
             THEN [st |-> st, ids |-> n, success |-> FALSE, id |-> id, data |-> NoDoc]
             ELSE [st |-> trackActivity(DeleteDoc(st, collectionName, id), n + 1,
                            [type |-> S("delete", 6, TRUE),
                             entityType |-> CollVal(collectionName), entityId |-> IdVal(id),
                             entityName |-> NameOr(data["name"], Unnamed),
                             userId |-> Tok(userId), companyId |-> Tok(companyId),
                             timestamp |-> Ts(now)]),
                   ids |-> n + 1, success |-> TRUE, id |-> id, data |-> NoDoc]

\* `${originalData.name} (Copy)`
CopyName(name) ==
    CASE name.k = "str" -> S(name.s \o " (Copy)", name.len + 7, FALSE)
      [] name.k = "null" -> S("null (Copy)", 11, FALSE)
      [] name.k = "undef" -> S("undefined (Copy)", 16, FALSE)
      [] OTHER -> S("[value] (Copy)", 14, FALSE)

\* firestoreService.duplicate (getById included)
duplicate(st, n, now, collectionName, id, userId, companyId) ==
    IF ~Exists(st, collectionName, id)
    THEN [st |-> st, ids |-> n, success |-> FALSE, id |-> id, data |-> NoDoc]
    ELSE LET data == st[collectionName][id]
             originalData == Spread(Mk(DOMAIN data, [id |-> IdVal(id)]), data)
             dataToDuplicate ==
                [key \in DOMAIN originalData |->
                    IF key \in {"id", "createdAt", "createdBy", "updatedAt", "updatedBy"}
                    THEN Undef ELSE originalData[key]]
             duplicateData ==
                Spread(dataToDuplicate,
                       [id |-> Uuid(n + 1), name |-> CopyName(originalData["name"]),
                        companyId |-> Tok(companyId), createdBy |-> Tok(userId),
                        createdAt |-> Ts(now), updatedAt |-> Ts(now)])
         IN  IF data["companyId"] # Tok(companyId)
             THEN [st |-> st, ids |-> n, success |-> FALSE, id |-> id, data |-> NoDoc]
             ELSE [st |-> trackActivity(
                            SetDoc(st, collectionName, UuidName(n + 1), duplicateData),
                            n + 2,
                            [type |-> S("duplicate", 9, TRUE),
                             entityType |-> CollVal(collectionName),
                             entityId |-> Uuid(n + 1),
                             entityName |-> duplicateData["name"],
                             userId |-> Tok(userId), companyId |-> Tok(companyId),
                             timestamp |-> Ts(now)]),
                   ids |-> n + 2, success |-> TRUE, id |-> UuidName(n + 1),
                   data |-> duplicateData]

\* what a route handler leaves behind: the store, the uuid count, the HTTP
\* status, and of the response body the document and the warnings key (the
\* body is the service's result or an error object: neither has that key)
Reply(r, status) == [st |-> r.st, ids |-> r.ids, status |-> status, id |-> r.id,
                     data |-> r.data, warnings |-> Undef]
Refuse(st, n, status) == [st |-> st, ids |-> n, status |-> status, id |-> "",
                          data |-> NoDoc, warnings |-> Undef]

\* router.post('/')
PostRoute(st, n, now, collectionName, body, userId, companyId) ==
    LET type == TypeOfCollection(collectionName)
        validation == validateData(type, body, FALSE, NoDoc)
    IN  IF validation.threw THEN Refuse(st, n, 500)
        ELSE IF ~validation.valid THEN Refuse(st, n, 400)
        ELSE Reply(create(st, n, now, collectionName, sanitizeData(type, body).sanitized,
                          userId, companyId), 201)

\* router.put('/:id')
PutRoute(st, n, now, collectionName, id, body, userId, companyId) ==
    LET type == TypeOfCollection(collectionName)
        validation == validateData(type, body, TRUE, NoDoc)
    IN  IF validation.threw THEN Refuse(st, n, 500)
        ELSE IF ~validation.valid THEN Refuse(st, n, 400)
        ELSE LET result == update(st, n, now, collectionName, id,
                                  sanitizeData(type, body).sanitized, userId, companyId)
             IN  IF ~result.success THEN Reply(result, 404) ELSE Reply(result, 200)

\* router.delete('/:id')
DeleteRoute(st, n, now, collectionName, id, userId, companyId) ==
    LET result == deleteDoc(st, n, now, collectionName, id, userId, companyId)
    IN  IF ~result.success THEN Reply(result, 404) ELSE Reply(result, 200)

\* router.post('/:id/duplicate')
DuplicateRoute(st, n, now, collectionName, id, userId, companyId) ==
    LET result == duplicate(st, n, now, collectionName, id, userId, companyId)
    IN  IF ~result.success THEN Reply(result, 404) ELSE Reply(result, 201)

----------------------------------------------------------------------------
(* Migration: migrateDocument, migrateCollection *)

\* a per-document report; "" / Undef stand for a key the report lacks
Report(success, error, message, version, from, to, hasChanges, changes, dryRun) ==
    [success |-> success, error |-> error, message |-> message, version |-> version,
     from |-> from, to |-> to, hasChanges |-> hasChanges, changes |-> changes,
     dryRun |-> dryRun]

\* a report that calls the outcome a success
FailureAsSuccess(error) == Report(TRUE, error, "", Undef, Undef, Undef, FALSE, {}, Undef)

\* { success: false, error }
Failure(error) == Report(FALSE, error, "", Undef, Undef, Undef, FALSE, {}, Undef)

\* data.schemaVersion || '1.0'
StampedVersion(data) ==
    IF Truthy(Get(data, "schemaVersion")) THEN data["schemaVersion"] ELSE Ver("1.0")

\* every key of the migrated copy reported as changed
ChangedKeysAll(updated, data) == {key \in DOMAIN updated : updated[key] # Undef}

\* Object.keys(updated).filter(key => updated[key] !== data[key])
ChangedKeys(updated, data) ==
    {key \in DOMAIN updated : updated[key] # Undef /\ updated[key] # data[key]}

\* a migration that never writes
PersistNever(dryRun, fields) == NoDoc

\* a migration that writes in a dry run too
PersistAlways(dryRun, fields) == fields

\* if (!dryRun) { await docRef.update(fields) }: the fields to write
Persist(dryRun, fields) == IF dryRun THEN NoDoc ELSE fields

\* a report that lists the changes only when they were written
MigratedUnlisted(currentVersion, targetVersion, changes, dryRun) ==
    Report(TRUE, "", "Document migrated successfully", Undef, currentVersion,
           targetVersion, TRUE, IF dryRun THEN {} ELSE changes, Bool(dryRun))

\* { success: true, message: 'Document migrated successfully', from, to,
\*   changes, dryRun }
Migrated(currentVersion, targetVersion, changes, dryRun) ==
    Report(TRUE, "", "Document migrated successfully", Undef, currentVersion,
           targetVersion, TRUE, changes, Bool(dryRun))

\* migrateDocument from the resolved docRef.get() up to its return or up to
\* the docRef.update() it awaits: the report, and the fields to write
\* (NoDoc: no write is issued)
migrateDocument(st, now, collectionName, docId, dryRun) ==
    IF ~Exists(st, collectionName, docId)
    THEN [report |-> Failure("Document not found"), write |-> NoDoc]
    ELSE LET data == st[collectionName][docId]
             schema == getSchema(TypeOfCollection(collectionName))
         IN  IF schema = NoSchema
             THEN [report |-> Failure("Schema not found"), write |-> NoDoc]
             ELSE LET currentVersion == StampedVersion(data)
                      targetVersion == Ver(schema.version)
                      r == applyDefaults(data, schema)
                      stamp == [schemaVersion |-> targetVersion, updatedAt |-> Ts(now)]
                  IN  IF currentVersion = targetVersion
                      THEN [report |-> Report(TRUE, "", "Already at latest version",
                                              currentVersion, Undef, Undef, FALSE, {},
                                              Undef),
                            write |-> NoDoc]
                      ELSE IF ~r.modified
                      THEN [report |-> Report(TRUE, "",
                                              "Version updated (no data changes needed)",
                                              Undef, currentVersion, targetVersion,
                                              FALSE, {}, Bool(dryRun)),
                            write |-> Persist(dryRun, Mk(DOMAIN data, stamp))]
                      ELSE [report |-> Migrated(currentVersion, targetVersion,
                                                ChangedKeys(r.updated, data), dryRun),
                            write |-> Persist(dryRun, Spread(r.updated, stamp))]

\* query.get(): the documents of a collection, optionally of one company,
\* as { id, name } in snapshot order
RECURSIVE Snapshot(_, _, _, _)
Snapshot(st, collectionName, companyId, order) ==
    IF order = <<>> THEN <<>>
    ELSE LET id == Head(order)
             rest == Snapshot(st, collectionName, companyId, Tail(order))
         IN  IF Exists(st, collectionName, id)
                /\ (companyId = "" \/ st[collectionName][id]["companyId"] = Tok(companyId))
             THEN <<[id |-> id, name |-> Get(st[collectionName][id], "name")]>> \o rest
             ELSE rest

CountWhere(results, ok) == Cardinality({i \in DOMAIN results : results[i].success = ok})

\* the collection-level report of migrateCollection
Summary(results) ==
    [success |-> CountWhere(results, FALSE) = 0, total |-> Len(results),
     successful |-> CountWhere(results, TRUE), failed |-> CountWhere(results, FALSE)]

NoSummary == [success |-> FALSE, total |-> -1, successful |-> -1, failed |-> -1]

\* the query migrateCollection and getMigrationStatus build: the collection,
\* the optional where('companyId', '==', companyId), and no limit()
Query(collectionName, companyId) ==
    [coll |-> collectionName, companyId |-> companyId, limit |-> None]

NoQuery == Query("", "")

\* versions[version] = (versions[version] || 0) + 1
Count(versions, version) ==
    [v \in DOMAIN versions \cup {version} |->
        IF v = version THEN (IF v \in DOMAIN versions THEN versions[v] ELSE 0) + 1
        ELSE versions[v]]

\* snapshot.forEach(doc => ...) of getMigrationStatus
RECURSIVE Tally(_, _, _, _)
Tally(st, collectionName, snapshot, versions) ==
    IF snapshot = << >> THEN versions
    ELSE Tally(st, collectionName, Tail(snapshot),
               Count(versions, StampedVersion(st[collectionName][Head(snapshot).id]).s))

\* a status that takes every version for outdated
IsOutdatedAlways(version, currentVersion) == TRUE

\* v !== currentVersion
IsOutdated(version, currentVersion) == version # currentVersion

\* .reduce((sum, [, count]) => sum + count, 0) over the given keys
RECURSIVE SumOver(_, _)
SumOver(versions, keys) ==
    IF keys = {} THEN 0
    ELSE LET v == CHOOSE k \in keys : TRUE
         IN  versions[v] + SumOver(versions, keys \ {v})

\* getMigrationStatus(collectionName, companyId)
getMigrationStatus(st, collectionName, companyId) ==
    LET snapshot == Snapshot(st, collectionName, companyId, IdOrder)
        schema == getSchema(TypeOfCollection(collectionName))
        currentVersion == IF schema # NoSchema /\ schema.version # ""
                          THEN schema.version ELSE "1.0"
        versions == Tally(st, collectionName, snapshot, << >>)
        outdated == {v \in DOMAIN versions : IsOutdated(v, currentVersion)}
    IN  [collection |-> collectionName,
         currentSchemaVersion |-> currentVersion,
         totalDocuments |-> Len(snapshot),
         versionBreakdown |-> versions,
         needsMigration |-> outdated # {},
         outdatedCount |-> SumOver(versions, outdated)]

NoStatus ==
    [collection |-> "", currentSchemaVersion |-> "", totalDocuments |-> -1,
     versionBreakdown |-> << >>, needsMigration |-> FALSE, outdatedCount |-> -1]
NoReport == Failure("")

IdleJob ==
    [pc |-> "idle", run |-> 0, mode |-> "", coll |-> "", dryRun |-> FALSE,
     query |-> NoQuery, status |-> NoStatus, snapshot |-> << >>,
     i |-> 0, data |-> NoDoc, report |-> NoReport, write |-> NoDoc, results |-> << >>,
     summary |-> NoSummary]

----------------------------------------------------------------------------
(* Sample values, request bodies and stored documents *)

Bob == S("Bob", 3, TRUE)
Robert == S("Robert", 6, TRUE)
Evil == S("evil", 4, TRUE)

\* a value the validator accepts for a field
ValidValue(field) ==
    CASE field.type = "number" -> Num(7)
      [] field.type = "boolean" -> Bool(TRUE)
      [] field.type = "array" -> Arr(<< >>)
      [] field.type = "object" -> Obj(<< >>)
      [] field.type = "select" /\ Len(field.options) > 0 ->
            S(field.options[1], 5, TRUE)
      [] OTHER -> Bob

\* {}
EmptyBody(type) == Mk(KeysOfSchema(getSchema(type)), << >>)

\* a body holding a valid value for every required field a caller controls
RequiredBody(type) ==
    LET fields == FlattenFields(getSchema(type))
    IN  [key \in KeysOfSchema(getSchema(type)) |->
            IF \E i \in DOMAIN fields :
                    /\ fields[i].name = key /\ fields[i].required
                    /\ ~(fields[i].generated /\ ~fields[i].editable)
            THEN ValidValue(CHOOSE f \in {fields[i] : i \in DOMAIN fields} :
                                f.name = key)
            ELSE Undef]

ServerKeys == {"id", "companyId", "createdBy", "createdAt", "updatedAt", "updatedBy"}

\* a body that also tries to set every server-owned key and schemaVersion
Forged(body) ==
    [key \in DOMAIN body |->
        IF key \in ServerKeys THEN Evil
        ELSE IF key = "schemaVersion" THEN Ver("9.9")
        ELSE IF key = "extra" THEN Num(7)
        ELSE body[key]]

----------------------------------------------------------------------------
(* Calls of the validator and the sanitizer on enumerated request bodies *)

MaxEdits == 1   \* keys of a base body that a request changes

SampleValues == {Undef, Null, EmptyStr, Bob}

RECURSIVE Edited(_, _, _)
Edited(bodies, keys, n) ==
    IF n = 0 THEN bodies
    ELSE LET prev == Edited(bodies, keys, n - 1)
         IN  prev \cup {[b EXCEPT ![e[1]] = e[2]] : b \in prev, e \in keys \X SampleValues}

\* a body whose arrays of objects hold the one item null
NullItems(type) ==
    LET fields == FlattenFields(getSchema(type))
    IN  [key \in KeysOfSchema(getSchema(type)) |->
            IF \E i \in DOMAIN fields :
                    /\ fields[i].name = key /\ fields[i].type = "array"
                    /\ fields[i].itemType = "object"
            THEN Arr(<<Null>>) ELSE Undef]

\* item lists for an array of objects: an empty object; objects with a
\* roleId and with an empty one; an empty object followed by null; a number;
\* a role with a preset that is offered and a description of 1001
\* characters; one with a preset that is not offered; one whose description
\* is a number
ItemLists ==
    { <<Obj(<< >>)>>,
      <<Obj(<< <<"roleId", Bob>> >>), Obj(<< <<"roleId", EmptyStr>> >>)>>,
      <<Obj(<< >>), Null>>,
      <<Num(7)>>,
      <<Obj(<< <<"roleId", Bob>>, <<"rolePreset", S("guide", 5, TRUE)>>,
               <<"roleDescription", S("long", 1001, FALSE)>> >>)>>,
      <<Obj(<< <<"roleId", Bob>>, <<"rolePreset", Bob>> >>)>>,
      <<Obj(<< <<"roleId", Bob>>, <<"roleDescription", Num(7)>> >>)>> }

\* bodies that hold one of these lists in an array-of-objects field
NestedBodies(type) ==
    LET fields == FlattenFields(getSchema(type))
    IN  {[EmptyBody(type) EXCEPT ![fields[i].name] = Arr(items)] :
            i \in {j \in DOMAIN fields :
                        fields[j].type = "array" /\ fields[j].itemType = "object"},
            items \in ItemLists}

Bodies(type) ==
    Edited({EmptyBody(type), RequiredBody(type), Forged(RequiredBody(type)),
            NullItems(type)} \cup NestedBodies(type),
           KeysOfSchema(getSchema(type)), MaxEdits)

CallTypes == getSchemaTypes \cup {"activitie"}

NoCall == [type |-> "", data |-> NoDoc, isUpdate |-> FALSE]
NoAnswer == [called |-> FALSE]
NoOut == [validation |-> NoAnswer, sanitized |-> NoAnswer]

\* no request served yet
Did(op) == [op |-> op, status |-> 0, coll |-> "", id |-> "", userId |-> "",
            companyId |-> "", data |-> NoDoc, warnings |-> Undef]

\* the variables of the store left idle
StoreIdle ==
    /\ store = << >> /\ clock = 0 /\ ids = 0 /\ job = IdleJob
    /\ step = Did("init")

InitValidator ==
    /\ StoreIdle
    /\ \E type \in CallTypes :
        vIn \in [type : {type}, data : Bodies(type), isUpdate : BOOLEAN]
    /\ vOut = NoOut
    /\ dIn = NoCall /\ dOut = NoOut

\* validateData(type, data, isUpdate) as the routes call it
Validate ==
    /\ vOut.validation = NoAnswer
    /\ vOut' = [vOut EXCEPT !.validation =
                    [called |-> TRUE,
                     result |-> validateData(vIn.type, vIn.data, vIn.isUpdate, NoDoc)]]
    /\ UNCHANGED <<store, clock, ids, job, step, vIn, dIn, dOut>>

\* sanitizeData(type, data)
Sanitize ==
    /\ vOut.sanitized = NoAnswer
    /\ LET r == sanitizeData(vIn.type, vIn.data)
       IN  /\ vOut' = [vOut EXCEPT !.sanitized = [called |-> TRUE, result |-> r.sanitized]]
           /\ vIn' = [vIn EXCEPT !.data = r.data]
    /\ UNCHANGED <<store, clock, ids, job, step, dIn, dOut>>

NextValidator == Validate \/ Sanitize

SpecValidator == InitValidator /\ [][NextValidator]_vars

----------------------------------------------------------------------------
(* Calls of applyDefaults on enumerated schemas and documents *)

Kinds == {"string", "text", "number", "boolean", "array", "object", "select",
          "reference", "file", "timestamp"}

\* descriptors of one field name: every kind, required or not, without a
\* default, with the default null and with the default "draft"
Descriptors(name) ==
    {[Fld(name, type, required) EXCEPT !.default = default] :
        type \in Kinds, required \in BOOLEAN, default \in {Undef, Null, Draft}}

\* a schema whose field list is the given one
SchemaOf(fields) ==
    [NoSchema EXCEPT !.type = "sample", !.version = "1.1", !.listFields = fields]

\* one descriptor of "f", or two of them (a duplicated name, as the
\* character schema has for name and voiceId)
SampleSchemas ==
    {SchemaOf(<<a>>) : a \in Descriptors("f")}
        \cup {SchemaOf(<<a, b>>) : a \in Descriptors("f"), b \in Descriptors("f")}

\* documents over the keys f and g
SampleDocs == [{"f", "g"} -> {Undef, Null, EmptyStr, Bob}]

\* character documents that lack some of name, voiceId, status
CharacterDocs ==
    {[RequiredBody("character") EXCEPT !["name"] = n, !["voiceId"] = v, !["status"] = s] :
        n \in {Bob, Null}, v \in {Bob, Undef}, s \in {Null, Undef, S("active", 6, TRUE)}}

InitDefaults ==
    /\ StoreIdle
    /\ vIn = NoCall /\ vOut = NoOut
    /\ \/ dIn \in [schema : SampleSchemas, data : SampleDocs]
       \/ dIn \in [schema : {characterSchema}, data : CharacterDocs]
    /\ dOut = [once |-> NoAnswer, twice |-> NoAnswer]

\* applyDefaults(data, schema)
ApplyOnce ==
    /\ dOut.once = NoAnswer
    /\ dOut' = [dOut EXCEPT !.once =
                    [called |-> TRUE, result |-> applyDefaults(dIn.data, dIn.schema)]]
    /\ UNCHANGED <<store, clock, ids, job, step, vIn, vOut, dIn>>

\* applyDefaults(updated, schema) on the document the first call returned
ApplyTwice ==
    /\ dOut.once # NoAnswer /\ dOut.twice = NoAnswer
    /\ dOut' = [dOut EXCEPT !.twice =
                    [called |-> TRUE,
                     result |-> applyDefaults(dOut.once.result.updated, dIn.schema)]]
    /\ UNCHANGED <<store, clock, ids, job, step, vIn, vOut, dIn>>

NextDefaults == ApplyOnce \/ ApplyTwice

SpecDefaults == InitDefaults /\ [][NextDefaults]_vars

----------------------------------------------------------------------------
(* The running service: entity routes and the migration CLI on one store *)

\* Documents found in the store when the service starts.  They were written
\* under earlier field tables, so they may lack fields that are required
\* now and carry an older stamp or none at all.
Without(doc, keys) == [key \in DOMAIN doc |-> IF key \in keys THEN Undef ELSE doc[key]]

Stored(collectionName, id, companyId, version) ==
    Spread(RequiredBody(TypeOfCollection(collectionName)),
           [id |-> IdVal(id), companyId |-> Tok(companyId),
            createdBy |-> Tok("seeduser"), createdAt |-> Ts(0), updatedAt |-> Ts(0),
            schemaVersion |-> version])

\* a character stamped 0.9 that lacks status; one whose name is null and
\* that lacks voiceId and createdAt; and one never stamped that lacks status
LegacyCharacters ==
    LET stale == Stored("characters", "doc-000a", "acme-001", Ver("0.9"))
    IN  { Without(stale, {"status"}),
          [Without(stale, {"voiceId", "createdAt"}) EXCEPT !["name"] = Null],
          Without(stale, {"status", "schemaVersion"}) }

NoDocs == [id \in DocIds |-> NoDoc]

\* next to it: another company's complete character stamped 0.9, a dialogue
\* stamped 0.9 without a name, and an environment at the current version
InitStores ==
    {[characters |->
        [NoDocs EXCEPT !["doc-000a"] = a,
                       !["doc-000b"] = Stored("characters", "doc-000b", "glob-002",
                                              Ver("0.9"))],
      dialogues |->
        [NoDocs EXCEPT !["doc-000a"] =
            Without(Stored("dialogues", "doc-000a", "acme-001", Ver("0.9")), {"name"})],
      environments |->
        [NoDocs EXCEPT !["doc-000a"] =
            Stored("environments", "doc-000a", "acme-001", Ver("1.0"))],
      activities |-> NoDocs] :
        a \in LegacyCharacters}

\* the stored documents an update may be validated against: none; one
\* stamped 0.9; one stamped with the registry's version; one never stamped;
\* one whose stamp is ''
StoredDocs(type) ==
    LET stale == Stored(getSchema(type).collection, "doc-000a", "acme-001", Ver("0.9"))
    IN  { NoDoc, stale,
          [stale EXCEPT !["schemaVersion"] = Ver(getSchema(type).version)],
          Without(stale, {"schemaVersion"}),
          [stale EXCEPT !["schemaVersion"] = EmptyStr] }

InitStored ==
    /\ StoreIdle
    /\ \E type \in getSchemaTypes :
        vIn \in [type : {type},
                 data : {EmptyBody(type), RequiredBody(type), Forged(RequiredBody(type)),
                         NullItems(type), [EmptyBody(type) EXCEPT !["name"] = EmptyStr]},
                 isUpdate : BOOLEAN, existingData : StoredDocs(type)]
    /\ vOut = NoOut
    /\ dIn = NoCall /\ dOut = NoOut

\* validateData(type, data, isUpdate, existingData)
ValidateStored ==
    /\ vOut.validation = NoAnswer
    /\ vOut' = [vOut EXCEPT !.validation =
                    [called |-> TRUE,
                     result |-> validateData(vIn.type, vIn.data, vIn.isUpdate,
                                             vIn.existingData)]]
    /\ UNCHANGED <<store, clock, ids, job, step, vIn, dIn, dOut>>

NextStored == ValidateStored

SpecStored == InitStored /\ [][NextStored]_vars

Init ==
    /\ store \in InitStores
    /\ clock = 1 /\ ids = 0 /\ job = IdleJob
    /\ step = Did("init")
    /\ vIn = NoCall /\ vOut = NoOut
    /\ dIn = NoCall /\ dOut = NoOut

\* the bodies requests carry
CreateBodies ==
    [type \in getSchemaTypes |->
        {EmptyBody(type), RequiredBody(type), Forged(RequiredBody(type))}]

UpdateBodies ==
    [type \in getSchemaTypes |->
        {[EmptyBody(type) EXCEPT !["name"] = Robert],
         [EmptyBody(type) EXCEPT !["name"] = EmptyStr],
         Forged(EmptyBody(type))}]

\* time passes; the stored documents were written at instant 0, the service
\* starts at instant 1
Tick ==
    /\ clock <= MaxClock
    /\ clock' = clock + 1
    /\ UNCHANGED <<store, ids, job, step, vIn, vOut, dIn, dOut>>

\* a request of req.user is served: the store it leaves and the response;
\* the response names the document only when the request succeeded
Request(op, collectionName, userId, companyId, r) ==
    /\ store' = r.st
    /\ ids' = r.ids
    /\ step' = IF r.status < 400
               THEN [op |-> op, status |-> r.status, coll |-> collectionName, id |-> r.id,
                     userId |-> userId, companyId |-> companyId,
                     data |-> r.data, warnings |-> r.warnings]
               ELSE [Did(op) EXCEPT !.status = r.status]
    /\ UNCHANGED <<clock, job, vIn, vOut, dIn, dOut>>

\* POST /api/<collection>
Post(collections, companies) ==
    /\ ids + 2 <= MaxIds
    /\ \E collectionName \in collections, companyId \in companies, userId \in Users :
        \E body \in CreateBodies[TypeOfCollection(collectionName)] :
            Request("post", collectionName, userId, companyId,
                    PostRoute(store, ids, clock, collectionName, body, userId, companyId))

\* PUT /api/<collection>/:id
Put(collections, companies) ==
    /\ ids + 1 <= MaxIds
    /\ \E collectionName \in collections, companyId \in companies, userId \in Users,
          id \in DocIds :
        \E body \in UpdateBodies[TypeOfCollection(collectionName)] :
            Request("put", collectionName, userId, companyId,
                    PutRoute(store, ids, clock, collectionName, id, body, userId,
                             companyId))

\* DELETE /api/<collection>/:id
Delete(collections, companies) ==
    /\ ids + 1 <= MaxIds
    /\ \E collectionName \in collections, companyId \in companies, userId \in Users,
          id \in DocIds :
        Request("delete", collectionName, userId, companyId,
                DeleteRoute(store, ids, clock, collectionName, id, userId, companyId))

\* POST /api/<collection>/:id/duplicate
Duplicate(collections, companies) ==
    /\ ids + 2 <= MaxIds
    /\ \E collectionName \in collections, companyId \in companies, userId \in Users,
          id \in DocIds :
        Request("duplicate", collectionName, userId, companyId,
                DuplicateRoute(store, ids, clock, collectionName, id, userId, companyId))

\* the CLI is free to start a run
JobFree == job.pc \in {"idle", "done", "failed"} /\ job.run < MaxRuns

\* migrateCollection up to the resolved query.get()
StartCollection ==
    /\ JobFree
    /\ \E collectionName \in Collections, companyId \in {"", "acme-001"},
          dryRun \in BOOLEAN :
        LET snapshot == Snapshot(store, collectionName, companyId, IdOrder)
        IN  job' = [IdleJob EXCEPT
                        !.pc = IF snapshot = << >> THEN "done" ELSE "next",
                        !.run = job.run + 1,
                        !.mode = "collection", !.coll = collectionName,
                        !.query = Query(collectionName, companyId),
                        !.dryRun = dryRun, !.snapshot = snapshot, !.i = 1,
                        !.summary = IF snapshot = << >> THEN Summary(<< >>)
                                    ELSE NoSummary]
    /\ UNCHANGED <<store, clock, ids, step, vIn, vOut, dIn, dOut>>

\* the CLI's status command: getMigrationStatus from its query.get() to
\* its return
StartStatus ==
    /\ JobFree
    /\ \E collectionName \in Collections, companyId \in {"", "acme-001"} :
        job' = [IdleJob EXCEPT
                    !.pc = "done", !.run = job.run + 1, !.mode = "status",
                    !.coll = collectionName,
                    !.query = Query(collectionName, companyId),
                    !.status = getMigrationStatus(store, collectionName, companyId)]
    /\ UNCHANGED <<store, clock, ids, step, vIn, vOut, dIn, dOut>>

\* migrateDocument called on its own
StartDocument ==
    /\ JobFree
    /\ \E collectionName \in Collections, dryRun \in BOOLEAN :
        \E id \in IF collectionName \in EntityCollections THEN LegacyIds ELSE DocIds :
        job' = [IdleJob EXCEPT !.pc = "next", !.run = job.run + 1, !.mode = "document",
                    !.coll = collectionName, !.dryRun = dryRun,
                    !.snapshot = <<[id |-> id, name |-> Undef]>>, !.i = 1]
    /\ UNCHANGED <<store, clock, ids, step, vIn, vOut, dIn, dOut>>

\* migrateDocument has returned its report for snapshot[i]: push the result
\* and go on with the next document, or build the collection report
Returned(j, report) ==
    LET results == Append(j.results,
                          [id |-> j.snapshot[j.i].id, name |-> j.snapshot[j.i].name,
                           report |-> report])
    IN  IF j.i < Len(j.snapshot)
        THEN [j EXCEPT !.pc = "next", !.i = j.i + 1, !.results = results,
                       !.report = report, !.data = NoDoc, !.write = NoDoc]
        ELSE [j EXCEPT !.pc = "done", !.results = results, !.report = report,
                       !.data = NoDoc, !.write = NoDoc,
                       !.summary = IF j.mode = "collection"
                                   THEN Summary([n \in DOMAIN results |->
                                                    results[n].report])
                                   ELSE NoSummary]

\* docRef.get() of migrateDocument resolves
MigrateRead ==
    /\ job.pc = "next"
    /\ LET m == migrateDocument(store, clock, job.coll, job.snapshot[job.i].id,
                                job.dryRun)
       IN  job' = IF m.write = NoDoc THEN Returned(job, m.report)
                  ELSE [job EXCEPT !.pc = "write", !.report = m.report,
                                   !.data = store[job.coll][job.snapshot[job.i].id],
                                   !.write = m.write]
    /\ UNCHANGED <<store, clock, ids, step, vIn, vOut, dIn, dOut>>

\* docRef.update() of migrateDocument resolves; on a document deleted
\* meanwhile it rejects, and nothing up to the CLI's main catches that
MigrateWrite ==
    /\ job.pc = "write"
    /\ LET id == job.snapshot[job.i].id
       IN  IF Exists(store, job.coll, id)
           THEN /\ store' = UpdateDoc(store, job.coll, id, job.write)
                /\ job' = Returned(job, job.report)
           ELSE /\ store' = store
                /\ job' = [job EXCEPT !.pc = "failed", !.data = NoDoc, !.write = NoDoc]
    /\ UNCHANGED <<clock, ids, step, vIn, vOut, dIn, dOut>>

\* the requests that arrive while the migration CLI runs: updates and
\* deletes of one company's characters, all within one instant
Busy == {"characters"}
Tenant == {"acme-001"}

Next ==
    \/ Put(Busy, Tenant)
    \/ Delete(Busy, Tenant)
    \/ StartCollection
    \/ StartStatus
    \/ StartDocument
    \/ MigrateRead
    \/ MigrateWrite

Spec == Init /\ [][Next]_vars

----------------------------------------------------------------------------
(* The entity routes alone, for every entity collection and company, with
   creates and with time passing between the requests *)

NextRoutes ==
    \/ Tick
    \/ Post(EntityCollections, Companies)
    \/ Put(EntityCollections, Companies)
    \/ Delete(EntityCollections, Companies)
    \/ Duplicate(EntityCollections, Companies)

SpecRoutes == Init /\ [][NextRoutes]_vars

----------------------------------------------------------------------------
(* Properties of the validator and the sanitizer *)

\* the required fields of a type that a caller controls
CallerRequired(type) ==
    {f \in {allFields[type][i] : i \in DOMAIN allFields[type]} :
        f.required /\ ~(f.generated /\ ~f.editable)}

\* the errors hold a message about the field itself
Mentions(errors, name) ==
    \E i \in DOMAIN errors : errors[i].field = name /\ errors[i].sub = ""

Validated == vOut.validation.called
Verdict == vOut.validation.result

\* the value is undefined, null or ''
Empty(value) == Missing(value) \/ value = EmptyStr

\* C2: on create, for every registered type and every required field a
\* caller controls, a payload in which the field is absent, null or '' gets
\* the result valid = false with an error that names the field.
C2_RequiredOnCreate ==
    (Validated /\ ~vIn.isUpdate /\ isValidType(vIn.type)) =>
        \A f \in CallerRequired(vIn.type) :
            Empty(Get(vIn.data, f.name)) =>
                ~Verdict.threw /\ ~Verdict.valid /\ Mentions(Verdict.errors, f.name)

\* a create payload without name, whose roles hold null, was validated
C2_Reached ==
    /\ Validated /\ ~vIn.isUpdate /\ vIn.type = "dialogue"
    /\ vIn.data = [EmptyBody("dialogue") EXCEPT !["roles"] = Arr(<<Null>>)]
    /\ Verdict.threw

\* C3: on update, no error is reported for a required field whose key the
\* payload lacks; the payload {} is valid for every registered type, and so
\* is {name: "Bob"} for a character.
C3_AbsentOnUpdate ==
    (Validated /\ vIn.isUpdate /\ isValidType(vIn.type)) =>
        /\ \A f \in CallerRequired(vIn.type) :
                ~HasOwn(vIn.data, f.name) => ~Mentions(Verdict.errors, f.name)
        /\ vIn.data = EmptyBody(vIn.type) => Verdict.valid /\ ~Verdict.threw
        /\ (vIn.type = "character"
                /\ vIn.data = [EmptyBody("character") EXCEPT !["name"] = Bob])
            => Verdict.valid /\ ~Verdict.threw

\* the update {name: "Bob"} of a character was validated and found valid
C3_Reached ==
    /\ Validated /\ vIn.isUpdate /\ vIn.type = "character"
    /\ vIn.data = [EmptyBody("character") EXCEPT !["name"] = Bob]
    /\ ~HasOwn(vIn.data, "voiceId")
    /\ Verdict.valid

\* C4: on update, a payload that holds the key of a required field a caller
\* controls with the value '' or null is invalid, whatever its other keys.
C4_ClearedOnUpdate ==
    (Validated /\ vIn.isUpdate /\ isValidType(vIn.type)) =>
        \A f \in CallerRequired(vIn.type) :
            Get(vIn.data, f.name) \in {EmptyStr, Null} =>
                ~Verdict.threw /\ ~Verdict.valid

\* an update that clears a required field and holds roles: [null] was
\* validated
C4_Reached ==
    /\ Validated /\ vIn.isUpdate /\ vIn.type = "dialogue"
    /\ \E f \in CallerRequired("dialogue") : Get(vIn.data, f.name) \in {EmptyStr, Null}
    /\ Get(vIn.data, "roles") = Arr(<<Null>>)
    /\ Verdict.threw

\* the descriptor the flattened schema holds for a key says editable: false
\* or generated: true
Locked(type, key) ==
    \E i \in DOMAIN allFields[type] :
        allFields[type][i].name = key
            /\ (~allFields[type][i].editable \/ allFields[type][i].generated)

\* C5: for every registered type and payload, the object sanitizeData
\* returns holds no key whose descriptor is non-editable or generated, holds
\* every other key of the payload with its value, and the payload is as it
\* was before the call.
C5_Sanitized ==
    [][(vOut'.sanitized # vOut.sanitized /\ isValidType(vIn.type)) =>
            /\ vIn' = vIn
            /\ \A key \in DOMAIN vIn.data :
                    vOut'.sanitized.result[key] =
                        IF Locked(vIn.type, key) THEN Undef ELSE vIn.data[key]]_vars

\* a payload that sets server-owned keys and keys of its own was sanitized
C5_Reached ==
    /\ vOut.sanitized.called /\ vIn.type = "character"
    /\ vIn.data["companyId"] = Evil /\ vIn.data["name"] = Bob
    /\ vOut.sanitized.result["companyId"] = Undef
    /\ vOut.sanitized.result["name"] = Bob

----------------------------------------------------------------------------
(* Properties of the entity routes *)

\* a request was just answered with success
Served(op) == ids' # ids /\ step'.op = op /\ step'.status < 400

\* C6: an accepted update, also one whose payload carries schemaVersion,
\* leaves the stored schemaVersion of the document as it was.
C6_UpdateKeepsVersion ==
    [][Served("put") =>
            store'[step'.coll][step'.id]["schemaVersion"]
                = store[step'.coll][step'.id]["schemaVersion"]]_vars

\* an update was accepted and the document now carries the payload's version
C6_Reached ==
    /\ step.op = "put" /\ step.status = 200
    /\ store[step.coll][step.id]["schemaVersion"] = Ver("9.9")

\* C7: after an accepted create the stored id, companyId, createdBy,
\* createdAt and updatedAt are the ones the server assigned and updatedBy is
\* not stored; after an accepted update id, companyId, createdBy and
\* createdAt are the ones stored before and updatedAt, updatedBy are the
\* ones the server assigned; whatever the payload holds for these keys.
C7_ServerOwned ==
    [][(Served("post") \/ Served("put")) =>
            LET d == store'[step'.coll][step'.id]
                before == store[step'.coll][step'.id]
            IN  IF step'.op = "post"
                THEN /\ d["id"] = IdVal(step'.id)
                     /\ d["companyId"] = Tok(step'.companyId)
                     /\ d["createdBy"] = Tok(step'.userId)
                     /\ d["createdAt"] = Ts(clock)
                     /\ d["updatedAt"] = Ts(clock)
                     /\ d["updatedBy"] = Undef
                ELSE /\ \A key \in {"id", "companyId", "createdBy", "createdAt"} :
                            d[key] = before[key]
                     /\ d["updatedAt"] = Ts(clock)
                     /\ d["updatedBy"] = Tok(step'.userId)]_vars

\* an update whose payload set every server-owned key was accepted
C7_Reached ==
    /\ step.op = "put" /\ step.status = 200
    /\ store[step.coll][step.id]["extra"] = Num(7)
    /\ store[step.coll][step.id]["updatedBy"] = Tok(step.userId)
    /\ store[step.coll][step.id]["id"] = IdVal(step.id)

----------------------------------------------------------------------------
(* Properties of applyDefaults *)

\* C8: applyDefaults applied to the document it returned returns that
\* document again.
C8_Idempotent ==
    dOut.twice.called => dOut.twice.result.updated = dOut.once.result.updated

\* applyDefaults changed a document and was applied to the result
C8_Reached ==
    /\ dOut.twice.called
    /\ dOut.once.result.modified
    /\ dOut.once.result.updated # dIn.data

\* the descriptors of a schema whose name the schema declares once
DeclaredOnce(schema) ==
    LET fields == CollectFields(schema)
    IN  {fields[i] : i \in {j \in DOMAIN fields :
            \A k \in DOMAIN fields : fields[k].name = fields[j].name => k = j}}

\* C9: for a field the document lacks, the result holds the declared default
\* if there is one, also when the field is required and whatever its kind;
\* the placeholder of the kind is assigned only to a required field that
\* declares no default.
C9_DefaultWins ==
    dOut.once.called =>
        \A f \in DeclaredOnce(dIn.schema) :
            Missing(Get(dIn.data, f.name)) =>
                dOut.once.result.updated[f.name] =
                    IF f.default # Undef THEN f.default
                    ELSE IF f.required /\ Placeholder(f.type) # Undef
                    THEN Placeholder(f.type)
                    ELSE dIn.data[f.name]

\* applyDefaults ran on a document lacking the one field of a schema that
\* declares it a required string with the default "draft"
C9_Reached ==
    /\ dOut.once.called
    /\ Len(dIn.schema.listFields) = 1
    /\ dIn.schema.listFields[1].type = "string"
    /\ dIn.schema.listFields[1].required
    /\ dIn.schema.listFields[1].default = Draft
    /\ dIn.data["f"] = Undef
    /\ dOut.once.result.updated["f"] = EmptyStr

----------------------------------------------------------------------------
(* Properties of the migration *)

\* C1: a migration started with dryRun never writes: every step of
\* migrateDocument and migrateCollection in a dry run, whichever branch the
\* document takes, leaves the store as it was.
C1_DryRunWritesNothing ==
    [][(job' # job /\ job'.dryRun) => store' = store /\ job'.write = NoDoc]_vars

\* a dry run over a collection ended, having reported fields to change
C1_Reached ==
    /\ job.pc = "done" /\ job.dryRun /\ job.mode = "collection"
    /\ \E n \in DOMAIN job.results :
            job.results[n].report.hasChanges /\ job.results[n].report.dryRun = Bool(TRUE)
    /\ \E n \in DOMAIN job.results :
            job.results[n].report.message = "Version updated (no data changes needed)"

\* the names applyDefaults assigns a value to
Assigned(data, schema) ==
    LET fields == CollectFields(schema)
    IN  {fields[i].name : i \in {j \in DOMAIN fields :
            /\ Missing(Get(data, fields[j].name))
            /\ \/ fields[j].default # Undef
               \/ fields[j].required /\ Placeholder(fields[j].type) # Undef}}

\* C10: when the write of a migration succeeds on a document nobody changed
\* since the migration read it, the stored schemaVersion is the registry's
\* version, the report's from is the version the document was stamped with
\* and its to the registry's, the reported changes are exactly the fields
\* applyDefaults assigned, and each of them is stored with the assigned value.
C10_Migrated ==
    [][(job.pc = "write" /\ job'.pc \in {"next", "done"}
            /\ store[job.coll][job.snapshot[job.i].id] = job.data) =>
            LET schema == getSchema(TypeOfCollection(job.coll))
                stored == store'[job.coll][job.snapshot[job.i].id]
                report == job'.report
            IN  /\ job.data["schemaVersion"] # Ver(schema.version)
                /\ stored["schemaVersion"] = Ver(schema.version)
                /\ report.success
                /\ report.from = job.data["schemaVersion"]
                /\ report.to = Ver(schema.version)
                /\ report.changes = Assigned(job.data, schema)
                /\ \A key \in report.changes :
                        stored[key] = applyDefaults(job.data, schema).updated[key]]_vars

\* the character that lacked only status was migrated
C10_Reached ==
    /\ job.pc = "done" /\ ~job.dryRun /\ job.coll = "characters"
    /\ job.report.changes = {"status"}
    /\ job.report.from = Ver("0.9") /\ job.report.to = Ver("1.0")
    /\ store["characters"]["doc-000a"]["status"] = Draft
    /\ store["characters"]["doc-000a"]["schemaVersion"] = Ver("1.0")

----------------------------------------------------------------------------
(* Properties of the collection sweep *)

\* C11: a migrateCollection call that has ended has attempted every fetched
\* document and returned a report with one result per fetched document,
\* successful + failed = total and success iff failed = 0, also when a
\* fetched document was deleted meanwhile by a request.
C11_SweepReportsAll ==
    (job.mode = "collection" /\ job.pc \in {"done", "failed"}) =>
        /\ job.pc = "done"
        /\ Len(job.results) = Len(job.snapshot)
        /\ job.summary.total = Len(job.snapshot)
        /\ job.summary.successful + job.summary.failed = job.summary.total
        /\ job.summary.success <=> job.summary.failed = 0

\* a sweep ended without a report: a document it had read was deleted
\* before its write
C11_Reached ==
    /\ job.mode = "collection" /\ job.pc = "failed"
    /\ step.op = "delete" /\ step.status = 200
    /\ ~Exists(store, job.coll, job.snapshot[job.i].id)

----------------------------------------------------------------------------
(* Properties of the status report *)

\* the documents a query fetches from a store
Fetched(st, query) ==
    {id \in DocIds :
        /\ Exists(st, query.coll, id)
        /\ query.companyId = "" \/ st[query.coll][id]["companyId"] = Tok(query.companyId)}

\* the fetched documents stamped with a version; a document without a stamp
\* counts as stamped '1.0'
StampedWith(st, query, version) ==
    {id \in Fetched(st, query) : StampedVersion(st[query.coll][id]).s = version}

\* C12: in the report of getMigrationStatus the values of versionBreakdown
\* sum to totalDocuments, each being the number of fetched documents with
\* that stamp; outdatedCount is the number of fetched documents whose stamp
\* differs from the registry's version, and needsMigration holds iff
\* outdatedCount > 0.
C12_StatusConsistent ==
    [][(job' # job /\ job'.mode = "status") =>
            LET report == job'.status
                current == getSchema(TypeOfCollection(job'.coll)).version
            IN  /\ report.totalDocuments = Cardinality(Fetched(store, job'.query))
                /\ SumOver(report.versionBreakdown, DOMAIN report.versionBreakdown)
                        = report.totalDocuments
                /\ \A v \in DOMAIN report.versionBreakdown :
                        report.versionBreakdown[v]
                            = Cardinality(StampedWith(store, job'.query, v))
                /\ isValidType(TypeOfCollection(job'.coll)) =>
                        report.outdatedCount
                            = Cardinality({id \in Fetched(store, job'.query) :
                                    StampedVersion(store[job'.coll][id]).s # current})
                /\ report.needsMigration <=> report.outdatedCount > 0]_vars

\* a status was reported on two characters, one stamped 0.9 and one that
\* counts as 1.0
C12_Reached ==
    /\ job.mode = "status" /\ job.pc = "done" /\ job.coll = "characters"
    /\ job.status.totalDocuments = 2
    /\ job.status.outdatedCount = 1
    /\ job.status.needsMigration
    /\ DOMAIN job.status.versionBreakdown = {"0.9", "1.0"}

----------------------------------------------------------------------------
(* Properties of nested validation *)

\* the errors hold the path field[index].sub, or field.sub for NoIndex
MentionsPath(errors, name, index, sub) ==
    \E i \in DOMAIN errors :
        errors[i].field = name /\ errors[i].index = index /\ errors[i].sub = sub

\* the required keys of a nested field map
RequiredKeys(schema) == {schema[i].key : i \in {j \in DOMAIN schema : schema[j].required}}

\* C13: on create and on update, when the payload holds an array for a field
\* whose items are objects with a nested field map, a required nested key s
\* that is absent, null or '' in item i yields an error with the path
\* field[i].s; when it holds an object for a field with a nested field map,
\* the path is field.s.
C13_NestedPaths ==
    (Validated /\ isValidType(vIn.type)) =>
        \A n \in DOMAIN allFields[vIn.type] :
            LET f == allFields[vIn.type][n]
                value == Get(vIn.data, f.name)
            IN  (~(f.generated /\ ~f.editable) /\ f.schema # << >>) =>
                    /\ (f.type = "array" /\ f.itemType = "object" /\ IsArray(value)) =>
                            \A i \in DOMAIN value.items, s \in RequiredKeys(f.schema) :
                                Empty(Prop(value.items[i], s)) =>
                                    MentionsPath(Verdict.errors, f.name, i - 1, s)
                    /\ (f.type = "object" /\ TypeOf(value) = "object" /\ ~IsArray(value)) =>
                            \A s \in RequiredKeys(f.schema) :
                                Empty(Prop(value, s)) =>
                                    MentionsPath(Verdict.errors, f.name, NoIndex, s)

\* roles: [{}, null] was validated: item 0 lacks roleId, and the call threw
C13_Reached ==
    /\ Validated /\ vIn.type = "dialogue"
    /\ vIn.data["roles"] = Arr(<<Obj(<< >>), Null>>)
    /\ Verdict.threw
    /\ ~MentionsPath(Verdict.errors, "roles", 0, "roleId")

----------------------------------------------------------------------------
(* Properties of the version stamp *)

\* C14: the document written by an accepted create carries the registry's
\* current version of its type as schemaVersion, whatever the payload holds,
\* also when the payload carries a schemaVersion of its own.
C14_CreateStamps ==
    [][Served("post") =>
            store'[step'.coll][step'.id]["schemaVersion"]
                = Ver(getSchema(TypeOfCollection(step'.coll)).version)]_vars

\* a create whose payload carried schemaVersion '9.9' was accepted and the
\* document is stamped with the registry's version
C14_Reached ==
    /\ step.op = "post" /\ step.status = 201
    /\ store[step.coll][step.id]["extra"] = Num(7)
    /\ store[step.coll][step.id]["schemaVersion"]
            = Ver(getSchema(TypeOfCollection(step.coll)).version)

\* the stamp of a stored document is set and is not the registry's version
Stale(st, collectionName, id) ==
    /\ Exists(st, collectionName, id)
    /\ Truthy(st[collectionName][id]["schemaVersion"])
    /\ st[collectionName][id]["schemaVersion"]
            # Ver(getSchema(TypeOfCollection(collectionName)).version)

\* C15: a PUT on a stored document of the caller's company whose stamp is
\* older than the registry's version, with a payload that passes validation,
\* is answered with success and a warnings list that holds the stale-version
\* notice (from the stamp, to the registry's version).
C15_StaleWarned ==
    [][(Served("put") /\ Stale(store, step'.coll, step'.id)) =>
            /\ step'.status = 200
            /\ step'.warnings # Undef
            /\ \E i \in DOMAIN step'.warnings :
                    /\ step'.warnings[i].from = store[step'.coll][step'.id]["schemaVersion"]
                    /\ step'.warnings[i].to
                            = getSchema(TypeOfCollection(step'.coll)).version]_vars

\* an update of a document stamped 0.9 was accepted and the response has no
\* warnings
C15_Reached ==
    /\ step.op = "put" /\ step.status = 200
    /\ store[step.coll][step.id]["schemaVersion"] = Ver("0.9")
    /\ step.warnings = Undef

----------------------------------------------------------------------------
(* Properties of calls with an unregistered type *)

\* the registry holds no schema for the type / for the collection's type
Unregistered(type) == getSchema(type) = NoSchema

\* C16: with a type or collection for which the registry holds no schema,
\* validateData returns valid = false with the unknown-type error,
\* sanitizeData hands back no payload, migrateDocument reports a failure and
\* writes nothing, and getMigrationStatus ends in failure instead of a report.
C16_UnknownTypeFails ==
    /\ (vOut.validation.called /\ Unregistered(vIn.type)) =>
            /\ ~vOut.validation.result.valid
            /\ Mentions(vOut.validation.result.errors, vIn.type)
    /\ (vOut.sanitized.called /\ Unregistered(vIn.type)) =>
            vOut.sanitized.result = NoDoc
    /\ (job.mode = "document" /\ job.pc = "done"
            /\ Unregistered(TypeOfCollection(job.coll))) =>
            ~job.report.success /\ job.write = NoDoc
    /\ (job.mode = "status" /\ Unregistered(TypeOfCollection(job.coll))) =>
            job.pc = "failed" /\ job.status = NoStatus

\* both calls were made with the type 'activitie': the validator answered
\* with the unknown-type error, the sanitizer handed the payload back
C16_Reached ==
    /\ Unregistered(vIn.type)
    /\ vOut.validation.called /\ ~vOut.validation.result.valid
    /\ vOut.sanitized.called /\ vOut.sanitized.result = vIn.data

----------------------------------------------------------------------------
(* Properties of the store queries of the bulk operations *)

\* C17: every store query that migrateCollection and getMigrationStatus
\* issue carries a limit, and the snapshot one query returns holds at most
\* that many documents.
C17_Paged ==
    job.mode \in {"collection", "status"} =>
        /\ job.query.limit # None
        /\ Len(job.snapshot) <= job.query.limit
        /\ job.mode = "status" => job.status.totalDocuments <= job.query.limit

\* a sweep whose one query, issued without a limit, returned every document
\* of the collection
C17_Reached ==
    /\ job.mode = "collection" /\ job.query.limit = None
    /\ Len(job.snapshot) = Cardinality({id \in DocIds : Exists(store, job.coll, id)})
    /\ Len(job.snapshot) = 2

----------------------------------------------------------------------------
(* Properties of the migration's write *)

\* docRef.update() of the migration in progress resolves in this step
MigrationWrites ==
    /\ job.pc = "write" /\ job' # job
    /\ Exists(store, job.coll, job.snapshot[job.i].id)

\* the keys applyDefaults assigned on the document as the migration read it
AssignedKeys(data, collectionName) ==
    ChangedKeys(applyDefaults(data, getSchema(TypeOfCollection(collectionName))).updated,
                data)

\* C18: the write of a migration that is not a dry run changes no stored
\* field other than the ones applyDefaults assigned, schemaVersion and
\* updatedAt: every other field keeps the value the store holds when the
\* write happens, also one that an update changed after the migration read
\* the document.
C18_WritesOnlyAssigned ==
    [][MigrationWrites =>
            LET id == job.snapshot[job.i].id
            IN  \A key \in DOMAIN store[job.coll][id] :
                    key \notin AssignedKeys(job.data, job.coll)
                                    \cup {"schemaVersion", "updatedAt"}
                        => store'[job.coll][id][key] = store[job.coll][id][key]]_vars

\* a migration that assigned defaults has written a document after an update
\* of that document was answered, and the name the update's response showed
\* is not the stored one
C18_Reached ==
    /\ job.mode = "document" /\ job.pc = "done" /\ ~job.dryRun
    /\ job.report.message = "Document migrated successfully"
    /\ step.op = "put" /\ step.status = 200
    /\ step.coll = job.coll /\ step.id = job.snapshot[1].id
    /\ Exists(store, step.coll, step.id)
    /\ "name" \notin job.report.changes
    /\ step.data["name"] # store[step.coll][step.id]["name"]

----------------------------------------------------------------------------
(* Properties of the field list applyDefaults walks *)

\* C19: applyDefaults returns what it would return on the validator's
\* field map (sections, then fields, then listFields, the first descriptor
\* of a name winning): a later descriptor of a name already seen has no
\* influence on the values assigned.
C19_FirstDescriptorOnly ==
    dOut.once.called =>
        dOut.once.result
            = ApplyFields(FlattenFields(dIn.schema), dIn.data,
                          [updated |-> dIn.data, modified |-> FALSE])

\* a character without voiceId went through applyDefaults and came back with
\* voiceId '', which only the later string descriptor of listFields assigns
C19_Reached ==
    /\ dIn.schema = characterSchema /\ dIn.data["voiceId"] = Undef
    /\ dOut.once.called
    /\ dOut.once.result.updated["voiceId"] = EmptyStr
    /\ ApplyFields(FlattenFields(dIn.schema), dIn.data,
                   [updated |-> dIn.data, modified |-> FALSE]).updated["voiceId"] = Undef

----------------------------------------------------------------------------
(* Properties of select fields *)

\* the value is one of the option values the field declares
Offered(field, value) ==
    value.k = "str" /\ \E i \in DOMAIN field.options : field.options[i] = value.s

\* C20: for every select field the validator looks at and every payload
\* that holds a value other than null for it, the errors name the field
\* exactly when the value is not one of the declared option values, also
\* when the field declares an empty option list.
C20_SelectOffered ==
    (Validated /\ isValidType(vIn.type)) =>
        \A n \in DOMAIN allFields[vIn.type] :
            LET field == allFields[vIn.type][n]
                value == Get(vIn.data, field.name)
            IN  (field.type = "select" /\ ~(field.generated /\ ~field.editable)
                    /\ ~Missing(value)) =>
                    (Mentions(Verdict.errors, field.name) <=> ~Offered(field, value))

\* a character with voiceId 'Bob' was validated: voiceId declares no
\* options, the call returned, and no error names voiceId
C20_Reached ==
    /\ Validated /\ vIn.type = "character" /\ ~Verdict.threw
    /\ vIn.data["voiceId"] = Bob
    /\ \E n \in DOMAIN allFields["character"] :
            /\ allFields["character"][n].name = "voiceId"
            /\ allFields["character"][n].type = "select"
            /\ allFields["character"][n].options = << >>
    /\ ~Mentions(Verdict.errors, "voiceId")

----------------------------------------------------------------------------
(* Properties of the kind rules of nested field maps *)

\* the value breaks the rule of a nested text key (a string of at most
\* maxLength characters) or of a nested select key (one of the options)
BreaksKind(fieldDef, value) ==
    \/ /\ fieldDef.type = "text"
       /\ \/ TypeOf(value) # "string"
          \/ fieldDef.maxLength # None /\ value.len > fieldDef.maxLength
    \/ /\ fieldDef.type = "select"
       /\ ~(value.k = "str" /\ \E i \in DOMAIN fieldDef.options :
                                    fieldDef.options[i] = value.s)

\* C21: when validateData returns, every item of an array-of-objects field
\* and every nested object that holds, for a nested key of kind text, a
\* value that is not a string or is longer than maxLength, or, for a nested
\* key of kind select, a value that is not one of the options, yields an
\* error with the path field[i].key (field.key for a nested object).
C21_NestedKinds ==
    (Validated /\ isValidType(vIn.type) /\ ~Verdict.threw) =>
        \A n \in DOMAIN allFields[vIn.type] :
            LET f == allFields[vIn.type][n]
                value == Get(vIn.data, f.name)
                Broken(obj, index) ==
                    \A k \in DOMAIN f.schema :
                        (~Missing(Prop(obj, f.schema[k].key))
                            /\ BreaksKind(f.schema[k], Prop(obj, f.schema[k].key)))
                        => MentionsPath(Verdict.errors, f.name, index, f.schema[k].key)
            IN  (~(f.generated /\ ~f.editable) /\ f.schema # << >>) =>
                    /\ (f.type = "array" /\ f.itemType = "object" /\ IsArray(value)) =>
                            \A i \in DOMAIN value.items : Broken(value.items[i], i - 1)
                    /\ (f.type = "object" /\ TypeOf(value) = "object" /\ ~IsArray(value)) =>
                            Broken(value, NoIndex)

\* a dialogue whose first role has the preset 'Bob' was validated, the call
\* returned, and no error names roles[0].rolePreset
C21_Reached ==
    /\ Validated /\ vIn.type = "dialogue" /\ ~Verdict.threw
    /\ vIn.data["roles"] = Arr(<<Obj(<< <<"roleId", Bob>>, <<"rolePreset", Bob>> >>)>>)
    /\ ~MentionsPath(Verdict.errors, "roles", 0, "rolePreset")

----------------------------------------------------------------------------
(* Properties of the stale-version warning *)

\* the migration engine counts the stored document as outdated
Outdated(type, existingData) ==
    StampedVersion(existingData) # Ver(getSchema(type).version)

\* C22: when validateData returns, its result carries the stale-version
\* warning exactly when the call is an update and it was handed a stored
\* document that the migration engine counts as outdated, never on create;
\* and valid is true iff there are no errors, warning or not.
C22_WarnsWhenStale ==
    (Validated /\ ~Verdict.threw) =>
        /\ Verdict.warnings # << >>
                <=> (vIn.isUpdate /\ vIn.existingData # NoDoc
                        /\ Outdated(vIn.type, vIn.existingData))
        /\ Verdict.valid <=> Verdict.errors = << >>

\* the update name: '' of a document stamped 0.9 was validated: the result
\* carries the warning and is invalid for the error on name alone
C22_Reached ==
    /\ Validated /\ ~Verdict.threw /\ vIn.isUpdate
    /\ vIn.existingData # NoDoc /\ vIn.existingData["schemaVersion"] = Ver("0.9")
    /\ vIn.data["name"] = EmptyStr
    /\ Verdict.warnings = << [from |-> Ver("0.9"), to |-> getSchema(vIn.type).version] >>
    /\ ~Verdict.valid /\ Len(Verdict.errors) = 1

----------------------------------------------------------------------------
(* Properties of migrateDocument's failures *)

\* docRef.get() of the migration in progress resolves in this step
MigrationReads == job.pc = "next" /\ job' # job

\* C23: migrateDocument on an id without a stored document reports the
\* failure 'Document not found', and on a stored document of a collection
\* whose type has no schema the failure 'Schema not found'; in both cases
\* it issues no write and the store stays as it is.
C23_FailsWithoutWrite ==
    [][MigrationReads =>
            LET id == job.snapshot[job.i].id
                failed(error) ==
                    /\ ~job'.report.success /\ job'.report.error = error
                    /\ job'.pc # "write" /\ job'.write = NoDoc
                    /\ store' = store
            IN  /\ ~Exists(store, job.coll, id) => failed("Document not found")
                /\ (Exists(store, job.coll, id)
                        /\ getSchema(TypeOfCollection(job.coll)) = NoSchema)
                    => failed("Schema not found")]_vars

\* migrateDocument was called on a stored activity, in earnest, and came
\* back with 'Schema not found'
C23_Reached ==
    /\ job.mode = "document" /\ job.pc = "done" /\ ~job.dryRun
    /\ job.coll = "activities" /\ Exists(store, job.coll, job.snapshot[1].id)
    /\ ~job.report.success /\ job.report.error = "Schema not found"

----------------------------------------------------------------------------
(* Properties of generated fields under validation *)

\* the keys whose descriptor in the flattened schema is generated and not
\* editable
GeneratedKeys(type) ==
    {allFields[type][i].name : i \in {j \in DOMAIN allFields[type] :
        allFields[type][j].generated /\ ~allFields[type][j].editable}}

\* C24: for every registered type, mode and payload, validateData gives the
\* outcome (valid, errors, thrown or not) it gives on the payload without
\* its generated, non-editable keys; so two payloads that differ only in
\* such keys get the same valid flag and the same errors.
C24_GeneratedIgnored ==
    (Validated /\ isValidType(vIn.type)) =>
        LET bare == validateData(vIn.type, Without(vIn.data, GeneratedKeys(vIn.type)),
                                 vIn.isUpdate, NoDoc)
        IN  /\ Verdict.valid = bare.valid
            /\ Verdict.errors = bare.errors
            /\ Verdict.threw = bare.threw

\* a creation payload that sets every generated key of its type was
\* validated and found valid
C24_Reached ==
    /\ Validated /\ isValidType(vIn.type) /\ ~vIn.isUpdate
    /\ GeneratedKeys(vIn.type) # {}
    /\ \A key \in GeneratedKeys(vIn.type) : vIn.data[key] # Undef
    /\ Verdict.valid

----------------------------------------------------------------------------
(* Properties of the duplicate operation *)

\* C25: the document written by an accepted duplicate carries the
\* registry's current version of its type as schemaVersion, whatever the
\* stamp of the document it was copied from.
C25_DuplicateStamps ==
    [][Served("duplicate") =>
            store'[step'.coll][step'.id]["schemaVersion"]
                = Ver(getSchema(TypeOfCollection(step'.coll)).version)]_vars

\* a duplicate was accepted and the copy carries the stamp 0.9 of its source
C25_Reached ==
    /\ step.op = "duplicate" /\ step.status = 201
    /\ store[step.coll][step.id]["schemaVersion"] = Ver("0.9")
    /\ store[step.coll][step.id]["createdAt"] = Ts(clock)

----------------------------------------------------------------------------
(* Properties of the validator as a total function *)

\* C26: for every registered type, both modes and every payload, also one
\* whose array of objects holds null or a value that is not an object,
\* validateData returns a result and does not throw.
C26_Total == (Validated /\ isValidType(vIn.type)) => ~Verdict.threw

\* the creation payload roles: [null] of a dialogue was validated, and the
\* call threw
C26_Reached ==
    /\ Validated /\ vIn.type = "dialogue" /\ ~vIn.isUpdate
    /\ vIn.data["roles"] = Arr(<<Null>>)
    /\ Verdict.threw

----------------------------------------------------------------------------
(* Properties of sanitizing after validating *)

\* C27: for every registered type and creation payload that validateData
\* finds valid, the object sanitizeData returns for it is found valid by
\* strict validation too.
C27_SanitizedStillValid ==
    (Validated /\ isValidType(vIn.type) /\ ~vIn.isUpdate /\ Verdict.valid) =>
        LET again == validateData(vIn.type, sanitizeData(vIn.type, vIn.data).sanitized,
                                  FALSE, NoDoc)
        IN  again.valid /\ ~again.threw

\* a valid creation payload that sets server-owned keys was validated and
\* sanitized; the sanitizer dropped those keys
C27_Reached ==
    /\ Validated /\ isValidType(vIn.type) /\ ~vIn.isUpdate /\ Verdict.valid
    /\ vIn.data["id"] = Evil
    /\ vOut.sanitized.called /\ vOut.sanitized.result["id"] = Undef

----------------------------------------------------------------------------
(* Properties of the migrated document *)

\* the required fields of the flattened schema for which the document holds
\* no value
Lacking(type, data) ==
    {allFields[type][i].name : i \in {j \in DOMAIN allFields[type] :
        allFields[type][j].required /\ Missing(data[allFields[type][j].name])}}

\* C28: when the write of a migration that is not a dry run lands on the
\* document as the migration read it, the stored document afterwards holds
\* a value other than null for every required field of its type's
\* flattened schema, of whatever kind.
C28_MigratedComplete ==
    [][(MigrationWrites /\ job.data = store[job.coll][job.snapshot[job.i].id]) =>
            /\ job'.report.success
            /\ store'[job.coll][job.snapshot[job.i].id]["schemaVersion"]
                    = Ver(getSchema(TypeOfCollection(job.coll)).version)
            /\ Lacking(TypeOfCollection(job.coll),
                       store'[job.coll][job.snapshot[job.i].id]) = {}]_vars

\* a character was migrated in earnest, untouched by anyone else, and is
\* stamped with the current version while it has no createdAt
C28_Reached ==
    /\ job.mode = "document" /\ job.pc = "done" /\ ~job.dryRun /\ job.report.success
    /\ job.coll = "characters" /\ step.op = "init"
    /\ store["characters"][job.snapshot[1].id]["schemaVersion"] = Ver("1.0")
    /\ "createdAt" \in Lacking("character", store["characters"][job.snapshot[1].id])

----------------------------------------------------------------------------
(* Properties of the dry run as a preview *)

\* the two reports agree in everything but the dryRun flag
SameButDryRun(a, b) == [a EXCEPT !.dryRun = Undef] = [b EXCEPT !.dryRun = Undef]

\* C29: whenever migrateDocument reads a document, the report it gives is,
\* but for the dryRun flag, the report of the dry run and of the run in
\* earnest on that state of the store: the same success, error, message,
\* from, to and changed fields.
C29_DryRunPreviews ==
    [][MigrationReads =>
            LET id == job.snapshot[job.i].id
                dry == migrateDocument(store, clock, job.coll, id, TRUE).report
                real == migrateDocument(store, clock, job.coll, id, FALSE).report
            IN  /\ SameButDryRun(dry, real)
                /\ SameButDryRun(job'.report, dry)
                /\ job'.report = IF job.dryRun THEN dry ELSE real]_vars

\* a dry run reported a migration with changed fields
C29_Reached ==
    /\ job.mode = "document" /\ job.pc = "done" /\ job.dryRun
    /\ job.report.success /\ job.report.message = "Document migrated successfully"
    /\ job.report.changes # {} /\ job.report.dryRun = Bool(TRUE)

----------------------------------------------------------------------------
(* Properties of a completed sweep *)

\* a sweep in earnest has completed without a failed document, and no
\* request was served since the service started
SweptAlone ==
    /\ job.mode = "collection" /\ job.pc = "done" /\ ~job.dryRun
    /\ job.summary.failed = 0
    /\ step.op = "init"

\* C30: on the store a completed sweep in earnest leaves, when no document
\* failed and nobody else wrote, getMigrationStatus for the swept query
\* reports needsMigration = false and outdatedCount = 0, and migrateDocument
\* on each document of a repeated sweep reports 'Already at latest version'
\* and issues no write.
C30_SweepConverges ==
    SweptAlone =>
        LET status == getMigrationStatus(store, job.coll, job.query.companyId)
            again == Snapshot(store, job.coll, job.query.companyId, IdOrder)
        IN  /\ ~status.needsMigration
            /\ status.outdatedCount = 0
            /\ Len(again) = Len(job.snapshot)
            /\ \A i \in DOMAIN again :
                    LET m == migrateDocument(store, clock, job.coll, again[i].id, FALSE)
                    IN  /\ m.report.success
                        /\ m.report.message = "Already at latest version"
                        /\ m.write = NoDoc

\* a sweep of all characters migrated two documents, one of them with
\* changed fields, and left both stamped with the current version
C30_Reached ==
    /\ SweptAlone /\ job.coll = "characters" /\ job.summary.total = 2
    /\ \E i \in DOMAIN job.results :
            job.results[i].report.message = "Document migrated successfully"
    /\ \A i \in DOMAIN job.snapshot :
            store["characters"][job.snapshot[i].id]["schemaVersion"] = Ver("1.0")

====
